---- MODULE Spec2Model ----
(***************************************************************************)
(* The TDX .day -> HDF5 ingestion pipeline of src/TDX_To_HDF5.py as a      *)
(* state machine: the worker threads of the ThreadPoolExecutor, each       *)
(* running process_single_file_enhanced / save_to_storage_streaming, the   *)
(* lock file protocol, the store (the HDF5 file, at the granularity of     *)
(* h5py calls), the persisted processing state, the batch writer thread    *)
(* and the orchestrating thread of process_all_day_files_optimized.        *)
(*                                                                         *)
(* In the pipeline as it is wired nothing puts a batch on                  *)
(* data_cache_queue: the workers merge themselves.  The batch writer's     *)
(* code is exercised by the specifications with a producer (Put), which    *)
(* stands for any caller of the queue's put.                               *)
(***************************************************************************)
EXTENDS Integers, Sequences, FiniteSets, TLC

\* ------------------------------------------------------------- bounds
\* Number of .day files in the source directory.
NFiles == 3
\* Worker threads of the pool (the num_threads argument).
NumThreads == 2
\* I/O errors the environment may raise inside the store write section.
MaxFaults == 1
\* Batches a producer puts on data_cache_queue.
MaxBatches == 3
\* The batch_size argument of the writer, in records.
BatchSize == 3

\* Logical CPUs a host may report.
MaxCpus == 10
\* Total memory a host may report, in steps of a quarter GiB.
MemSteps == 20

\* ---------------------------------------------------- program constants
max_retries == 10
RecordSize == 32
SaveEvery == 10
\* batch_thread.join(timeout=5), in tenths of a second.
JoinTimeoutTenths == 50

Files == 1..NFiles
Workers == 1..NumThreads
\* The thread of auto_batch_write_optimized and the orchestrating thread.
WriterId == NumThreads + 1
MainId == NumThreads + 2
BatchMergers == {WriterId, MainId}
Threads == Workers \cup BatchMergers
\* Owner written in a lock file left behind by a killed process.
Stale == NumThreads + 3

Columns == {"date", "open", "high", "low", "close", "amount", "volume", "prev_close"}
\* The order in which batch_write_to_hdf5_optimized creates the datasets.
ColumnOrder == << "date", "open", "high", "low", "close", "amount", "volume", "prev_close" >>

\* ------------------------------------------------------------ the files
\* A file of one more instrument, whose bytes are those of file 1.
Twin == NFiles + 1

\* The file whose bytes file f holds.
ContentOf(f) == IF f = Twin THEN 1 ELSE f

\* The raw records of file f: the date integer and a tag standing for the
\* seven value fields.  File contents do not change during a behaviour.
RawRecords(f) ==
    LET g == ContentOf(f)
    IN  CASE g % 3 = 1 -> << [date |-> 2, val |-> 10 * g + 1], [date |-> 1, val |-> 10 * g + 2] >>
          [] g % 3 = 2 -> << [date |-> 1, val |-> 10 * g + 1], [date |-> 1, val |-> 10 * g + 2] >>
          [] OTHER     -> << [date |-> 3, val |-> 10 * g + 1] >>

\* The cutoffs a job may be given: none, or a date after some records.
MinDates == {0, 2}

\* os.path.getsize: every third file carries one stray byte.
FileSize(f) == RecordSize * Len(RawRecords(f)) + (IF ContentOf(f) % 3 = 0 THEN 1 ELSE 0)

\* filename.split('#')[1].split('.')[0]: one instrument per file.
StockCode(f) == 600000 + f

\* calculate_file_hash: md5 over the first and last KB, here over the whole
\* (small) content; equal contents give equal hashes.
calculate_file_hash(f) == << RawRecords(f), FileSize(f) >>

RECURSIVE InsertByDate(_, _)
InsertByDate(r, s) ==
    IF s = << >> THEN << r >>
    ELSE IF r.date < Head(s).date THEN << r >> \o s
    ELSE << Head(s) >> \o InsertByDate(r, Tail(s))

RECURSIVE SortByDate(_)
\* data.sort(key=date): stable, ascending.
SortByDate(s) ==
    IF s = << >> THEN << >>
    ELSE InsertByDate(s[Len(s)], SortByDate(SubSeq(s, 1, Len(s) - 1)))

\* parse_fund_data_mmap: [] for a size that is no multiple of 32, else the
\* records not before min_date (0 stands for None), sorted by date.
parse_fund_data_mmap(f, md) ==
    IF FileSize(f) % RecordSize # 0 THEN << >>
    ELSE LET n   == FileSize(f) \div RecordSize
             raw == SubSeq(RawRecords(f), 1, n)
             Keep(r) == ~(md # 0 /\ r.date < md)
         IN  SortByDate(SelectSeq(raw, Keep))

\* ------------------------------------------------------------ the store
\* A group of the HDF5 file: the datasets created in it, its record_count
\* attribute (-1: not set), the records the datasets hold, and, while it is
\* being built by batch_write_to_hdf5_optimized, the thread building it.
FullGroup(records) ==
    [datasets |-> Columns, record_count |-> Len(records), records |-> records, by |-> 0]

Complete(g) == g.datasets = Columns /\ g.record_count = Len(g.records)

\* A series stored by an earlier run from a file that has changed since.
OldRecords == << [date |-> 1, val |-> 0] >>

\* The store before any group was written.
EmptyStore == [c \in {} |-> 0]

\* h5py: del hf[code]
DelGroup(st, code) == [c \in DOMAIN st \ {code} |-> st[c]]
\* h5py: a group created or copied under the name code
PutGroup(st, code, g) == [c \in DOMAIN st \cup {code} |-> IF c = code THEN g ELSE st[c]]

\* ------------------------------------------------------- the producer
\* The k-th batch put on data_cache_queue: (stock_code, data).  A later
\* batch of an instrument carries an earlier date than the one before.
ProducerBatch(k) ==
    [code |-> StockCode(((k - 1) % 2) + 1),
     data |-> << [date |-> MaxBatches + 1 - k, val |-> 100 + k] >>]

VARIABLES
    run,               \* 1: the first invocation, 2: the job started again
    history,           \* how the first invocation ended
    min_date,          \* the cutoff of this job (0: none)
    day_files,         \* the .day files listed in the source directory
    error_sink,        \* entries of the errors directory, per file
    progress_thread,   \* the reporter thread: "alive" or "dead"
    storage_file_exists, \* os.path.exists(storage_file)
    system_info,       \* cpu_count and memory_total (in KiB) of the host
    max_threads,       \* the cap passed to calculate_optimal_threads
    optimal_threads,   \* its result (NotComputed before the call)
    main_pc,           \* position of process_all_day_files_optimized
    tasks,             \* the executor's work queue (file indices)
    pc,                \* position of each worker, of the writer thread and
                       \* of the orchestrator's own batch write
    file,              \* the file each worker is processing
    fund_data,         \* the worker's parse result (and temp file content)
    deleted,           \* whether the worker's merge deleted a stored group
    lock_acquired,     \* a merge's lock_acquired
    retry_count,       \* a merge's retry_count
    sleep_time,        \* a merge's last sleep, in tenths of a second
    lock_file,         \* 0: absent, else the creator
    storage,           \* the HDF5 store: code -> group
    processed_files,   \* in-memory state: fingerprints of this directory
    prior,             \* in-memory state: entries of other directories
    state_file,        \* the pickled state on disk
    progress_queue,    \* events put for the reporter
    processed_count,   \* results counted by the orchestrator
    faults,            \* I/O errors raised so far
    to_put,            \* batches the producer has yet to put
    batch_write_running,
    data_cache_queue,
    batch_data,        \* the writer's accumulator: << code, records >> pairs
    wbatch,            \* the batch_data argument of a running batch write
    widx,              \* the item of wbatch being written
    wcols              \* datasets created for that item

vars == << run, history, min_date, day_files, error_sink, progress_thread,
           storage_file_exists, system_info, max_threads, optimal_threads,
           main_pc, tasks, pc, file, fund_data, deleted,
           lock_acquired, retry_count, sleep_time, lock_file, storage,
           processed_files, prior, state_file, progress_queue,
           processed_count, faults, to_put, batch_write_running,
           data_cache_queue, batch_data, wbatch, widx, wcols >>

planVars == << system_info, max_threads, optimal_threads >>
jobVars == << run, history, min_date, day_files, error_sink, progress_thread,
             storage_file_exists, planVars >>
workVars == << tasks, file, fund_data, deleted >>
lockVars == << lock_acquired, retry_count, sleep_time >>
stateVars == << processed_files, prior, state_file, processed_count >>
queueVars == << to_put, batch_write_running, data_cache_queue, batch_data >>
writeVars == << wbatch, widx, wcols >>

\* ------------------------------------------- calculate_optimal_threads
Min(a, b) == IF a <= b THEN a ELSE b

Max(a, b) == IF a >= b THEN a ELSE b

\* Line 56: the default of max_threads.
DefaultMaxThreads == 8

\* Line 56: the default of default_threads.
default_threads == 1

\* Line 65: 512 * 1024 * 1024 bytes, in KiB.
PerThreadMemory == 512 * 1024

\* The hosts: any number of logical CPUs, and total memory at, and one
\* KiB below, every quarter GiB.
Hosts ==
    [cpu_count : 1..MaxCpus,
     memory_total : {k * (PerThreadMemory \div 2) - d :
                        k \in 1..MemSteps, d \in {0, 1}}]

\* num_threads before line 601 has run: None.
NotComputed == 0 - 1

\* The caps a caller passes.
ThreadCaps == {1, 4, DefaultMaxThreads}

\* A result that is not raised to default_threads.
NoFloor(n, d) == n

\* Line 71: max(optimal_threads, default_threads)
AtLeast(n, d) == Max(n, d)

\* Lines 55-73.  int(memory_total / (512 * 1024 * 1024)) truncates the
\* quotient, which is exact for a whole number of KiB.
calculate_optimal_threads(info, cap, dflt) ==
    LET cpu_based_threads    == Min(info.cpu_count, cap)
        memory_based_threads == Min(info.memory_total \div PerThreadMemory, cap)
    IN  AtLeast(Min(cpu_based_threads, memory_based_threads), dflt)

\* ------------------------------------------------------------- start
\* Lines 599-601: the caller gave num_threads, nothing is computed.
ThreadsGiven ==
    /\ system_info = [cpu_count |-> NumThreads, memory_total |-> PerThreadMemory]
    /\ max_threads = DefaultMaxThreads
    /\ optimal_threads = NotComputed

\* An errors directory without entries.
NoErrors == [f \in 1..Twin |-> 0]

\* No state file.  The field form tells what the bytes of a state file
\* unpickle to: "state" (a dict as lines 291-297 and 715-721 build it),
\* "unreadable" (pickle.load raises), "empty" (an object that is false in
\* a condition, such as {}), "other" (any other object).
NoState == [exists |-> FALSE, form |-> "none", processed_files |-> {}, prior |-> 0]

\* The memory of a process that has not started its threads yet.
FreshMemory ==
    /\ main_pc = "load"
    /\ tasks = << >>
    /\ pc = [t \in Threads |-> "none"]
    /\ file = [w \in Workers |-> 0]
    /\ fund_data = [w \in Workers |-> << >>]
    /\ deleted = [w \in Workers |-> FALSE]
    /\ lock_acquired = [t \in Threads |-> FALSE]
    /\ retry_count = [t \in Threads |-> 0]
    /\ sleep_time = [t \in Threads |-> 0]
    /\ processed_files = {}
    /\ prior = 0
    /\ progress_queue = << >>
    /\ processed_count = 0
    /\ batch_write_running = FALSE
    /\ data_cache_queue = << >>
    /\ batch_data = << >>
    /\ wbatch = [t \in BatchMergers |-> << >>]
    /\ widx = [t \in BatchMergers |-> 0]
    /\ wcols = [t \in BatchMergers |-> 0]

\* What a first invocation finds on disk: either nothing, or the store and
\* the state an earlier job left, SaveEvery - 1 entries of files that are
\* gone or have changed and the series of the first instrument.
DiskAtStart ==
    \/ /\ state_file = NoState
       /\ storage_file_exists = FALSE
       /\ storage = EmptyStore
    \/ /\ state_file = [exists |-> TRUE, form |-> "state", processed_files |-> {}, prior |-> SaveEvery - 1]
       /\ storage_file_exists = TRUE
       /\ storage = [c \in {StockCode(1)} |-> FullGroup(OldRecords)]

Init ==
    /\ run = 1
    /\ history = << >>
    /\ min_date \in MinDates
    /\ day_files = [i \in 1..NFiles |-> i]
    /\ faults = 0
    /\ error_sink = NoErrors
    /\ progress_thread = "alive"
    /\ ThreadsGiven
    /\ to_put = 0
    /\ lock_file = 0
    /\ DiskAtStart
    /\ FreshMemory

\* Lines 126-134: what load_processing_state returns, the form of the
\* unpickled object or "none" for None (no file, or pickle.load raised).
load_processing_state(sf) ==
    IF sf.exists /\ sf.form # "unreadable" THEN sf.form ELSE "none"

\* Line 630: if state
Truthy(state) == state \notin {"none", "empty"}

\* ------------------------------------- process_all_day_files_optimized
\* Lines 653-679: the in-memory state is set, the writer and reporter
\* threads are started and one task per file is submitted.
StartJob(pf, pr) ==
    /\ processed_files' = pf
    /\ prior' = pr
    /\ batch_write_running' = TRUE
    /\ data_cache_queue' = << >>
    /\ pc' = [t \in Threads |-> IF t \in Workers THEN "idle"
                                ELSE IF t = WriterId THEN "get" ELSE "none"]
    /\ tasks' = day_files
    /\ main_pc' = "wait"

\* Lines 622-679: an object that is not a state dict raises at
\* state['processed_count'] (line 631) and the function is left; a state
\* without a store file makes the function ask the operator (636);
\* otherwise the job starts from the loaded state, or from an empty one.
LoadState ==
    /\ main_pc = "load"
    /\ IF Truthy(load_processing_state(state_file)) /\ state_file.form # "state"
       THEN /\ main_pc' = "aborted"
            /\ UNCHANGED << processed_files, prior, batch_write_running,
                            data_cache_queue, pc, tasks >>
       ELSE IF Truthy(load_processing_state(state_file)) /\ ~storage_file_exists
       THEN /\ main_pc' = "prompt"
            /\ UNCHANGED << processed_files, prior, batch_write_running,
                            data_cache_queue, pc, tasks >>
       ELSE IF Truthy(load_processing_state(state_file))
       THEN StartJob(state_file.processed_files, state_file.prior)
       ELSE StartJob({}, 0)
    /\ UNCHANGED << jobVars, file, fund_data, deleted, lockVars, lock_file,
                    storage, state_file, processed_count, progress_queue,
                    faults, to_put, batch_data, writeVars >>

\* What the operator may type at the prompt of line 636 ("" counts as y).
Choices == {"y", "n"}

\* Lines 636-645 and 653-679: input() returns the operator's choice; "y"
\* starts from an empty state, anything else keeps the loaded one; the
\* threads are started and the tasks submitted.
AnswerPrompt ==
    /\ main_pc = "prompt"
    /\ \E choice \in Choices :
          IF choice = "y" THEN StartJob({}, 0)
          ELSE StartJob(state_file.processed_files, state_file.prior)
    /\ UNCHANGED << jobVars, file, fund_data, deleted, lockVars, lock_file,
                    storage, state_file, processed_count, progress_queue,
                    faults, to_put, batch_data, writeVars >>

\* ----------------------------------------- process_single_file_enhanced
\* Lines 677-688: the pool runs submitted tasks while the orchestrator is
\* inside the with block, also while the block is left by an exception
\* (the executor's exit waits for every submitted task).
PoolOpen == {"wait", "interrupted"}

\* A pool thread takes the next submitted task.
TakeTask(w) ==
    /\ main_pc \in PoolOpen
    /\ pc[w] = "idle"
    /\ tasks # << >>
    /\ file' = [file EXCEPT ![w] = Head(tasks)]
    /\ tasks' = Tail(tasks)
    /\ pc' = [pc EXCEPT ![w] = "check"]
    /\ UNCHANGED << jobVars, main_pc, fund_data, deleted, lockVars, lock_file,
                    storage, stateVars, progress_queue, faults, queueVars,
                    writeVars >>

\* A lookup that never finds the hash.
NeverProcessed(file_hash, pf) == FALSE

\* Lines 257-258: if file_hash in processed_files
AlreadyProcessed(file_hash, pf) == file_hash \in pf

\* Lines 256-273 and 319-357: skip a file whose hash is recorded (result
\* True), give up on a file without data (result False), else write the
\* temp file and start the merge.
CheckAndParse(w) ==
    /\ pc[w] = "check"
    /\ LET f    == file[w]
           data == parse_fund_data_mmap(f, min_date)
       IN  IF AlreadyProcessed(calculate_file_hash(f), processed_files)
           THEN /\ pc' = [pc EXCEPT ![w] = "idle"]
                /\ file' = [file EXCEPT ![w] = 0]
                /\ processed_count' = processed_count + 1
                /\ UNCHANGED fund_data
           ELSE IF data = << >>
           THEN /\ pc' = [pc EXCEPT ![w] = "idle"]
                /\ file' = [file EXCEPT ![w] = 0]
                /\ UNCHANGED << processed_count, fund_data >>
           ELSE /\ pc' = [pc EXCEPT ![w] = "lock"]
                /\ fund_data' = [fund_data EXCEPT ![w] = data]
                /\ UNCHANGED << processed_count, file >>
    /\ UNCHANGED << jobVars, main_pc, tasks, deleted, lockVars, lock_file,
                    storage, processed_files, prior, state_file,
                    progress_queue, faults, queueVars, writeVars >>

\* ------------------------ the lock file (both merge functions, 353-374
\* and 426-447)
\* A loop that only ends with the lock.
RetryForever(acquired, retries) == ~acquired

\* The loop condition of lines 361 and 434.
MayRetry(acquired, retries) == ~acquired /\ retries < max_retries

\* An open that does not fail on an existing file (mode 'w').
CreateAlways(lf) == TRUE

\* open(lock_file, 'x') succeeds when no file of that name exists.
CanCreate(lf) == lf = 0

\* sleep_time = 0.2 * retry_count, in tenths of a second.
Backoff(retries) == 2 * retries

\* One pass of the acquisition loop.  open(lock_file, 'x') creates the
\* file or raises FileExistsError; after a failure the merge sleeps and the
\* loop condition is tested again.
TryLock(t) ==
    /\ pc[t] = "lock"
    /\ MayRetry(lock_acquired[t], retry_count[t])
    /\ IF CanCreate(lock_file)
       THEN /\ lock_file' = t
            /\ lock_acquired' = [lock_acquired EXCEPT ![t] = TRUE]
            /\ UNCHANGED << retry_count, sleep_time >>
       ELSE /\ retry_count' = [retry_count EXCEPT ![t] = @ + 1]
            /\ sleep_time' = [sleep_time EXCEPT ![t] = Backoff(retry_count[t] + 1)]
            /\ UNCHANGED << lock_file, lock_acquired >>
    /\ UNCHANGED << jobVars, main_pc, pc, workVars, storage, stateVars,
                    progress_queue, faults, queueVars, writeVars >>

\* A finally that removes the lock file whoever created it.
LockRemoved(acquired, lf) == 0

\* A finally that leaves the lock file where it is.
LockKept(acquired, lf) == lf

\* The finally of lines 391-397 and 504-510.
LockAfterRelease(acquired, lf) == IF acquired THEN 0 ELSE lf

\* ------------------------------------------- save_to_storage_streaming
\* Lines 372-381: the loop is left, with the lock or without it; the store
\* is opened in 'a' mode and the instrument's group, if there, is deleted.
OpenAndDelete(w) ==
    /\ w \in Workers
    /\ pc[w] = "lock"
    /\ ~MayRetry(lock_acquired[w], retry_count[w])
    /\ deleted' = [deleted EXCEPT ![w] = StockCode(file[w]) \in DOMAIN storage]
    /\ storage' = DelGroup(storage, StockCode(file[w]))
    /\ storage_file_exists' = TRUE
    /\ pc' = [pc EXCEPT ![w] = "copy"]
    /\ UNCHANGED << planVars, run, history, min_date, day_files, error_sink,
                    progress_thread, main_pc, tasks, file, fund_data, lockVars,
                    lock_file, stateVars, progress_queue, faults, queueVars,
                    writeVars >>

\* Lines 384-387: hf_main.copy of the temp file's group, flush and close.
\* h5py raises when the destination name exists; the except of line 388
\* swallows it.
CopyGroup(w) ==
    /\ w \in Workers
    /\ pc[w] = "copy"
    /\ storage' = IF StockCode(file[w]) \in DOMAIN storage
                  THEN storage
                  ELSE PutGroup(storage, StockCode(file[w]), FullGroup(fund_data[w]))
    /\ pc' = [pc EXCEPT ![w] = "release"]
    /\ UNCHANGED << jobVars, main_pc, workVars, lockVars, lock_file, stateVars,
                    progress_queue, faults, queueVars, writeVars >>

\* Lines 384-390: the copy raises (an I/O error); the file is closed with
\* the deletion done and nothing copied.
CopyFail(w) ==
    /\ w \in Workers
    /\ pc[w] = "copy"
    /\ faults < MaxFaults
    /\ faults' = faults + 1
    /\ pc' = [pc EXCEPT ![w] = "release"]
    /\ UNCHANGED << jobVars, main_pc, workVars, lockVars, lock_file, storage,
                    stateVars, progress_queue, queueVars, writeVars >>

\* Lines 391-406: release the lock, remove the temp file and put the
\* progress event; the function returns.
ReleaseAndReport(w) ==
    /\ w \in Workers
    /\ pc[w] = "release"
    /\ lock_file' = LockAfterRelease(lock_acquired[w], lock_file)
    /\ progress_queue' = Append(progress_queue, << file[w], TRUE >>)
    /\ fund_data' = [fund_data EXCEPT ![w] = << >>]
    /\ deleted' = [deleted EXCEPT ![w] = FALSE]
    /\ retry_count' = [retry_count EXCEPT ![w] = 0]
    /\ sleep_time' = [sleep_time EXCEPT ![w] = 0]
    /\ pc' = [pc EXCEPT ![w] = "record"]
    /\ UNCHANGED << jobVars, main_pc, tasks, file, lock_acquired, storage,
                    stateVars, faults, queueVars, writeVars >>

\* Lines 278-284: processed_files[file_hash] = {...}
RecordProcessed(w) ==
    /\ pc[w] = "record"
    /\ processed_files' = processed_files \cup {calculate_file_hash(file[w])}
    /\ lock_acquired' = [lock_acquired EXCEPT ![w] = FALSE]
    /\ pc' = [pc EXCEPT ![w] = "flush"]
    /\ UNCHANGED << jobVars, main_pc, workVars, retry_count, sleep_time,
                    lock_file, storage, prior, state_file, processed_count,
                    progress_queue, faults, queueVars, writeVars >>

\* len(processed_files)
StateLen(pf, pr) == Cardinality(pf) + pr

\* Lines 286-298: every SaveEvery entries the state is copied and pickled;
\* the task returns True.
PeriodicSave(w) ==
    /\ pc[w] = "flush"
    /\ state_file' = IF StateLen(processed_files, prior) % SaveEvery = 0
                     THEN [exists |-> TRUE, form |-> "state", processed_files |-> processed_files,
                           prior |-> prior]
                     ELSE state_file
    /\ processed_count' = processed_count + 1
    /\ file' = [file EXCEPT ![w] = 0]
    /\ pc' = [pc EXCEPT ![w] = "idle"]
    /\ UNCHANGED << jobVars, main_pc, tasks, fund_data, deleted, lockVars,
                    lock_file, storage, processed_files, prior, progress_queue,
                    faults, queueVars, writeVars >>

\* Where a pool thread is after the except of lines 300-313 has returned
\* False: free for the next task.
AfterRaise == "idle"

\* Lines 300-313: a statement of process_single_file_enhanced outside the
\* calls that catch their own errors raises; the handler writes one entry
\* to the errors directory and the task returns False.
ProcessRaise(w) ==
    /\ w \in Workers
    /\ pc[w] \in {"check", "record", "flush"}
    /\ faults < MaxFaults
    /\ faults' = faults + 1
    /\ error_sink' = [error_sink EXCEPT ![file[w]] = @ + 1]
    /\ pc' = [pc EXCEPT ![w] = AfterRaise]
    /\ file' = [file EXCEPT ![w] = 0]
    /\ lock_acquired' = [lock_acquired EXCEPT ![w] = FALSE]
    /\ UNCHANGED << planVars, run, history, min_date, day_files, progress_thread,
                    storage_file_exists,
                    main_pc, tasks, fund_data, deleted, retry_count, sleep_time, lock_file,
                    storage, stateVars, progress_queue, queueVars, writeVars >>

\* ------------------------------------------- update_progress_optimized
\* Lines 560-581: the reporter takes one event and marks it done.  Its
\* gets commute with every step of the workers; they are taken here once
\* the pool has finished, when the orchestrator waits for them.
ReporterGet ==
    /\ main_pc = "pjoin"
    /\ progress_thread = "alive"
    /\ progress_queue # << >>
    /\ progress_queue' = Tail(progress_queue)
    /\ UNCHANGED << jobVars, main_pc, pc, workVars, lockVars, lock_file,
                    storage, stateVars, faults, queueVars, writeVars >>

\* Lines 560-578: a statement between the get and task_done raises
\* (sys.stdout.write on a closed or differently encoded stream); only
\* queue.Empty is caught, so the thread ends with the event not marked done.
ReporterFail ==
    /\ main_pc = "pjoin"
    /\ progress_thread = "alive"
    /\ progress_queue # << >>
    /\ progress_thread' = "dead"
    /\ UNCHANGED << planVars, run, history, min_date, day_files, error_sink,
                    storage_file_exists, main_pc, pc, workVars, lockVars, lock_file, storage, stateVars,
                    progress_queue, faults, queueVars, writeVars >>

\* ------------------------- process_all_day_files_optimized, after submit
\* Lines 677-688: the with block ends when every task has returned.
PoolDone ==
    /\ main_pc = "wait"
    /\ tasks = << >>
    /\ \A w \in Workers : pc[w] = "idle"
    /\ main_pc' = "pjoin"
    /\ UNCHANGED << jobVars, pc, workVars, lockVars, lock_file, storage,
                    stateVars, progress_queue, faults, queueVars, writeVars >>

\* Lines 690-694: progress_queue.join(), then the writer is told to stop.
StopWriter ==
    /\ main_pc = "pjoin"
    /\ progress_queue = << >>
    /\ batch_write_running' = FALSE
    /\ main_pc' = "bjoin"
    /\ UNCHANGED << jobVars, pc, workVars, lockVars, lock_file, storage,
                    stateVars, progress_queue, faults, to_put,
                    data_cache_queue, batch_data, writeVars >>

\* Line 519 with an empty accumulator: the writer thread leaves its loop
\* once it is told to stop and the queue is empty, and returns.
WriterExit ==
    /\ pc[WriterId] = "get"
    /\ ~batch_write_running
    /\ data_cache_queue = << >>
    /\ batch_data = << >>
    /\ pc' = [pc EXCEPT ![WriterId] = "done"]
    /\ UNCHANGED << jobVars, main_pc, workVars, lockVars, lock_file, storage,
                    stateVars, progress_queue, faults, queueVars, writeVars >>

\* Line 695: batch_thread.join returns because the thread has ended.
JoinWriter ==
    /\ main_pc = "bjoin"
    /\ pc[WriterId] = "done"
    /\ main_pc' = "drain"
    /\ UNCHANGED << jobVars, pc, workVars, lockVars, lock_file, storage,
                    stateVars, progress_queue, faults, queueVars, writeVars >>

\* Line 698 with an empty queue: the drain loop is left.
DrainSkip ==
    /\ main_pc = "drain"
    /\ data_cache_queue = << >>
    /\ main_pc' = "save"
    /\ UNCHANGED << jobVars, pc, workVars, lockVars, lock_file, storage,
                    stateVars, progress_queue, faults, queueVars, writeVars >>

\* Lines 713-736: the final state is pickled and the summary printed; the
\* function returns.
FinalSave ==
    /\ main_pc = "save"
    /\ state_file' = [exists |-> TRUE, form |-> "state", processed_files |-> processed_files,
                      prior |-> prior]
    /\ main_pc' = "done"
    /\ UNCHANGED << jobVars, pc, workVars, lockVars, lock_file, storage,
                    processed_files, prior, processed_count, progress_queue,
                    faults, queueVars, writeVars >>

\* ------------------------------------------ auto_batch_write_optimized
\* Lines 525-527: batch_data[stock_code].extend(data), the dict keeping the
\* order in which the codes first arrived.
RECURSIVE Accumulate(_, _)
Accumulate(batch, item) ==
    IF batch = << >> THEN << item >>
    ELSE IF Head(batch).code = item.code
         THEN << [code |-> item.code, data |-> Head(batch).data \o item.data] >> \o Tail(batch)
         ELSE << Head(batch) >> \o Accumulate(Tail(batch), item)

RECURSIVE TotalRecords(_)
\* Line 530: sum(len(records) for records in batch_data.values())
TotalRecords(batch) ==
    IF batch = << >> THEN 0 ELSE Len(Head(batch).data) + TotalRecords(Tail(batch))

\* A test that needs more than batch_size records.
ReachedAbove(total_records, batch_size) == total_records > batch_size

\* Line 531: if total_records >= batch_size
Reached(total_records, batch_size) == total_records >= batch_size

\* Some caller puts the next batch on data_cache_queue while files are
\* being processed.
Put ==
    /\ main_pc = "wait"
    /\ to_put > 0
    /\ data_cache_queue' = Append(data_cache_queue, ProducerBatch(MaxBatches - to_put + 1))
    /\ to_put' = to_put - 1
    /\ UNCHANGED << jobVars, main_pc, pc, workVars, lockVars, lock_file,
                    storage, stateVars, progress_queue, faults,
                    batch_write_running, batch_data, writeVars >>

\* Lines 519-535: a batch is taken and added to the accumulator; once the
\* accumulator holds batch_size records it is written.
WriterGet ==
    /\ pc[WriterId] = "get"
    /\ data_cache_queue # << >>
    /\ LET nb == Accumulate(batch_data, Head(data_cache_queue))
       IN  /\ batch_data' = nb
           /\ data_cache_queue' = Tail(data_cache_queue)
           /\ IF Reached(TotalRecords(nb), BatchSize)
              THEN /\ pc' = [pc EXCEPT ![WriterId] = "lock"]
                   /\ wbatch' = [wbatch EXCEPT ![WriterId] = nb]
                   /\ widx' = [widx EXCEPT ![WriterId] = 1]
                   /\ lock_acquired' = [lock_acquired EXCEPT ![WriterId] = FALSE]
              ELSE UNCHANGED << pc, wbatch, widx, lock_acquired >>
    /\ UNCHANGED << jobVars, main_pc, workVars, retry_count, sleep_time,
                    lock_file, storage, stateVars, progress_queue, faults,
                    to_put, batch_write_running, wcols >>

\* Lines 537-541 and 547-549: the queue is empty (the get timed out, or
\* the loop was left) and the accumulator is not: it is written.
WriterFlush ==
    /\ pc[WriterId] = "get"
    /\ data_cache_queue = << >>
    /\ batch_data # << >>
    /\ pc' = [pc EXCEPT ![WriterId] = "lock"]
    /\ wbatch' = [wbatch EXCEPT ![WriterId] = batch_data]
    /\ widx' = [widx EXCEPT ![WriterId] = 1]
    /\ lock_acquired' = [lock_acquired EXCEPT ![WriterId] = FALSE]
    /\ UNCHANGED << jobVars, main_pc, workVars, retry_count, sleep_time,
                    lock_file, storage, stateVars, progress_queue, faults,
                    queueVars, wcols >>

\* ------------------------------------- batch_write_to_hdf5_optimized
\* The item of the batch being written.
Item(t) == wbatch[t][widx[t]]

\* Lines 445-451: the loop is left, with the lock or without it, and the
\* store is opened in 'a' mode.
BatchOpen(t) ==
    /\ t \in BatchMergers
    /\ pc[t] = "lock"
    /\ ~MayRetry(lock_acquired[t], retry_count[t])
    /\ storage_file_exists' = TRUE
    /\ pc' = [pc EXCEPT ![t] = "del"]
    /\ UNCHANGED << planVars, run, history, min_date, day_files, error_sink,
                    progress_thread, main_pc, workVars, lockVars, lock_file,
                    storage, stateVars, progress_queue, faults, queueVars,
                    writeVars >>

\* Lines 454-455: if stock_code in hf: del hf[stock_code]
BatchDelete(t) ==
    /\ t \in BatchMergers
    /\ pc[t] = "del"
    /\ storage' = DelGroup(storage, Item(t).code)
    /\ pc' = [pc EXCEPT ![t] = "group"]
    /\ UNCHANGED << jobVars, main_pc, workVars, lockVars, lock_file, stateVars,
                    progress_queue, faults, queueVars, writeVars >>

\* Line 458: hf.create_group; it raises when the name exists, and the
\* except of line 484 starts the fallback.
BatchCreateGroup(t) ==
    /\ t \in BatchMergers
    /\ pc[t] = "group"
    /\ IF Item(t).code \in DOMAIN storage
       THEN /\ pc' = [pc EXCEPT ![t] = "fdel"]
            /\ UNCHANGED storage
       ELSE /\ storage' = PutGroup(storage, Item(t).code,
                                   [datasets |-> {}, record_count |-> -1,
                                    records |-> Item(t).data, by |-> t])
            /\ pc' = [pc EXCEPT ![t] = "data"]
    /\ wcols' = [wcols EXCEPT ![t] = 0]
    /\ UNCHANGED << jobVars, main_pc, workVars, lockVars, lock_file, stateVars,
                    progress_queue, faults, queueVars, wbatch, widx >>

\* The group t is building, if it is still linked under its name.
Building(t) == Item(t).code \in DOMAIN storage /\ storage[Item(t).code].by = t

\* Lines 471-478: one group.create_dataset.
BatchCreateDataset(t) ==
    /\ t \in BatchMergers
    /\ pc[t] = "data"
    /\ storage' = IF Building(t)
                  THEN [storage EXCEPT ![Item(t).code].datasets =
                            @ \cup {ColumnOrder[wcols[t] + 1]}]
                  ELSE storage
    /\ wcols' = [wcols EXCEPT ![t] = @ + 1]
    /\ pc' = [pc EXCEPT ![t] = IF wcols[t] + 1 = Len(ColumnOrder) THEN "attr" ELSE "data"]
    /\ UNCHANGED << jobVars, main_pc, workVars, lockVars, lock_file, stateVars,
                    progress_queue, faults, queueVars, wbatch, widx >>

\* Lines 481-483: the record_count attribute; then the next item, or after
\* the last one the flush and the close.
BatchSetAttr(t) ==
    /\ t \in BatchMergers
    /\ pc[t] = "attr"
    /\ storage' = IF Building(t)
                  THEN [storage EXCEPT ![Item(t).code].record_count = Len(Item(t).data),
                                       ![Item(t).code].by = 0]
                  ELSE storage
    /\ IF widx[t] < Len(wbatch[t])
       THEN /\ widx' = [widx EXCEPT ![t] = @ + 1]
            /\ pc' = [pc EXCEPT ![t] = "del"]
       ELSE /\ pc' = [pc EXCEPT ![t] = "release"]
            /\ UNCHANGED widx
    /\ wcols' = [wcols EXCEPT ![t] = 0]
    /\ UNCHANGED << jobVars, main_pc, workVars, lockVars, lock_file, stateVars,
                    progress_queue, faults, queueVars, wbatch >>

\* Line 484: a call of the primary write raises (an I/O error).
BatchWriteFail(t) ==
    /\ t \in BatchMergers
    /\ pc[t] \in {"del", "group", "data", "attr"}
    /\ faults < MaxFaults
    /\ faults' = faults + 1
    /\ pc' = [pc EXCEPT ![t] = "fdel"]
    /\ UNCHANGED << jobVars, main_pc, workVars, lockVars, lock_file, storage,
                    stateVars, progress_queue, queueVars, writeVars >>

\* Lines 489-493: the fallback opens the store again and deletes the group
\* of the batch's first code.
FallbackDelete(t) ==
    /\ t \in BatchMergers
    /\ pc[t] = "fdel"
    /\ storage' = DelGroup(storage, wbatch[t][1].code)
    /\ pc' = [pc EXCEPT ![t] = "fwrite"]
    /\ UNCHANGED << jobVars, main_pc, workVars, lockVars, lock_file, stateVars,
                    progress_queue, faults, queueVars, writeVars >>

\* Lines 494-499: create_group and the 'date' dataset of the first code;
\* create_group raises when the name exists ("fallback failed").
FallbackWrite(t) ==
    /\ t \in BatchMergers
    /\ pc[t] = "fwrite"
    /\ storage' = IF wbatch[t][1].code \in DOMAIN storage
                  THEN storage
                  ELSE PutGroup(storage, wbatch[t][1].code,
                                [datasets |-> {"date"}, record_count |-> -1,
                                 records |-> wbatch[t][1].data, by |-> 0])
    /\ pc' = [pc EXCEPT ![t] = "release"]
    /\ UNCHANGED << jobVars, main_pc, workVars, lockVars, lock_file, stateVars,
                    progress_queue, faults, queueVars, writeVars >>

\* Lines 504-510, and the caller's next statement: the writer thread
\* clears its accumulator (533, 541), the orchestrator tests the queue
\* again (698).
BatchRelease(t) ==
    /\ t \in BatchMergers
    /\ pc[t] = "release"
    /\ lock_file' = LockAfterRelease(lock_acquired[t], lock_file)
    /\ wbatch' = [wbatch EXCEPT ![t] = << >>]
    /\ widx' = [widx EXCEPT ![t] = 0]
    /\ retry_count' = [retry_count EXCEPT ![t] = 0]
    /\ sleep_time' = [sleep_time EXCEPT ![t] = 0]
    /\ IF t = WriterId
       THEN /\ batch_data' = << >>
            /\ pc' = [pc EXCEPT ![t] = "get"]
            /\ UNCHANGED main_pc
       ELSE /\ pc' = [pc EXCEPT ![t] = "none"]
            /\ main_pc' = "drain"
            /\ UNCHANGED batch_data
    /\ UNCHANGED << jobVars, workVars, lock_acquired, storage, stateVars,
                    progress_queue, faults, to_put, batch_write_running,
                    data_cache_queue, wcols >>

\* ------------------------- process_all_day_files_optimized, 695-711
\* The time a merge has slept after its retries, in tenths of a second.
Slept(retries) == retries * (retries + 1)

\* Line 695: batch_thread.join(timeout=5) gives up while the writer thread
\* is still sleeping in its acquisition loop.
JoinTimeout ==
    /\ main_pc = "bjoin"
    /\ pc[WriterId] = "lock"
    /\ Slept(retry_count[WriterId]) >= JoinTimeoutTenths
    /\ main_pc' = "drain"
    /\ UNCHANGED << jobVars, pc, workVars, lockVars, lock_file, storage,
                    stateVars, progress_queue, faults, queueVars, writeVars >>

\* Lines 700-708: the orchestrator takes a batch from the queue itself.
DrainGet ==
    /\ main_pc \in {"drain", "collect"}
    /\ data_cache_queue # << >>
    /\ wbatch' = [wbatch EXCEPT ![MainId] = Accumulate(@, Head(data_cache_queue))]
    /\ data_cache_queue' = Tail(data_cache_queue)
    /\ main_pc' = "collect"
    /\ UNCHANGED << jobVars, pc, workVars, lockVars, lock_file, storage,
                    stateVars, progress_queue, faults, to_put,
                    batch_write_running, batch_data, widx, wcols >>

\* Lines 710-711: the queue is empty; what was taken is written.
DrainWrite ==
    /\ main_pc = "collect"
    /\ data_cache_queue = << >>
    /\ pc' = [pc EXCEPT ![MainId] = "lock"]
    /\ widx' = [widx EXCEPT ![MainId] = 1]
    /\ lock_acquired' = [lock_acquired EXCEPT ![MainId] = FALSE]
    /\ main_pc' = "drainw"
    /\ UNCHANGED << jobVars, workVars, retry_count, sleep_time, lock_file,
                    storage, stateVars, progress_queue, faults, queueVars,
                    wbatch, wcols >>

\* ------------------------------------------------ the process as a whole
\* A lock file whose creator is gone stays where it is.
LockAfterKill(lf) == IF lf = 0 THEN 0 ELSE Stale

\* How an invocation ended, the fingerprints recorded by the tasks that had
\* returned, what its store held at that moment and the state file as the
\* last completed save left it.
RunRecord(how) ==
    [how      |-> how,
     saved    |-> state_file,
     recorded |-> {h \in processed_files :
                     \A w \in Workers : pc[w] = "flush" => calculate_file_hash(file[w]) # h},
     store    |-> storage]

\* The memory of a process that has ended.
MemoryGone ==
    /\ tasks' = << >>
    /\ pc' = [t \in Threads |-> "none"]
    /\ file' = [w \in Workers |-> 0]
    /\ fund_data' = [w \in Workers |-> << >>]
    /\ deleted' = [w \in Workers |-> FALSE]
    /\ lock_acquired' = [t \in Threads |-> FALSE]
    /\ retry_count' = [t \in Threads |-> 0]
    /\ sleep_time' = [t \in Threads |-> 0]
    /\ processed_files' = {}
    /\ prior' = 0
    /\ progress_queue' = << >>
    /\ processed_count' = 0
    /\ batch_write_running' = FALSE
    /\ data_cache_queue' = << >>
    /\ batch_data' = << >>
    /\ wbatch' = [t \in BatchMergers |-> << >>]
    /\ widx' = [t \in BatchMergers |-> 0]
    /\ wcols' = [t \in BatchMergers |-> 0]

\* The process is killed: every thread stops where it is, its memory is
\* gone, the files stay as the calls made so far left them.
Kill ==
    /\ main_pc \notin {"load", "done", "dead"}
    /\ lock_file' = LockAfterKill(lock_file)
    /\ main_pc' = "dead"
    /\ history' = Append(history, RunRecord("killed"))
    /\ MemoryGone
    /\ UNCHANGED << planVars, run, min_date, day_files, error_sink, progress_thread,
                    storage_file_exists,
                    storage, state_file,
                    faults, to_put >>

\* Lines 115-123: open(state_file, 'wb') has truncated the file and
\* pickle.dump has not finished.
TornState == [exists |-> TRUE, form |-> "unreadable", processed_files |-> {}, prior |-> 0]

\* Lines 296 and 723: a worker or the orchestrator is inside
\* save_processing_state.
Saving ==
    \/ main_pc = "save"
    \/ \E w \in Workers : /\ pc[w] = "flush"
                          /\ StateLen(processed_files, prior) % SaveEvery = 0

\* The process is killed while the state file is being written in place.
KillInSave ==
    /\ main_pc \notin {"load", "done", "dead"}
    /\ Saving
    /\ state_file' = TornState
    /\ lock_file' = LockAfterKill(lock_file)
    /\ main_pc' = "dead"
    /\ history' = Append(history, RunRecord("killed"))
    /\ MemoryGone
    /\ UNCHANGED << planVars, run, min_date, day_files, error_sink, progress_thread,
                    storage_file_exists,
                    storage, faults,
                    to_put >>

\* The job is started again on the same directory with the same arguments.
Restart ==
    /\ main_pc \in {"done", "dead"}
    /\ run = 1
    /\ run' = 2
    /\ history' = IF main_pc = "done" THEN Append(history, RunRecord("completed"))
                  ELSE history
    /\ main_pc' = "load"
    /\ MemoryGone
    /\ progress_thread' = "alive"
    /\ UNCHANGED << planVars, min_date, day_files, error_sink,
                    storage_file_exists,
                    lock_file, storage,
                    state_file, faults, to_put >>

\* ------------------------------------------------------- the pipeline
Orchestrate ==
    \/ LoadState
    \/ PoolDone
    \/ StopWriter
    \/ WriterExit
    \/ JoinWriter
    \/ DrainSkip
    \/ FinalSave

Skim ==
    \/ \E w \in Workers : TakeTask(w)
    \/ \E w \in Workers : CheckAndParse(w)

Ingest ==
    \/ \E w \in Workers : TryLock(w)
    \/ \E w \in Workers : OpenAndDelete(w)
    \/ \E w \in Workers : CopyGroup(w)
    \/ \E w \in Workers : CopyFail(w)
    \/ \E w \in Workers : ReleaseAndReport(w)
    \/ \E w \in Workers : RecordProcessed(w)
    \/ \E w \in Workers : PeriodicSave(w)
    \/ ReporterGet

BatchWriting ==
    \/ Put
    \/ WriterGet
    \/ WriterFlush
    \/ \E t \in BatchMergers : TryLock(t)
    \/ \E t \in BatchMergers : BatchOpen(t)
    \/ \E t \in BatchMergers : BatchDelete(t)
    \/ \E t \in BatchMergers : BatchCreateGroup(t)
    \/ \E t \in BatchMergers : BatchCreateDataset(t)
    \/ \E t \in BatchMergers : BatchSetAttr(t)
    \/ \E t \in BatchMergers : BatchWriteFail(t)
    \/ \E t \in BatchMergers : FallbackDelete(t)
    \/ \E t \in BatchMergers : FallbackWrite(t)
    \/ \E t \in BatchMergers : BatchRelease(t)
    \/ JoinTimeout
    \/ DrainGet
    \/ DrainWrite

\* The job as it is wired, killed at any point or run to its end, and
\* started once more.
Next ==
    \/ Orchestrate
    \/ Skim
    \/ Ingest
    \/ Kill
    \/ Restart

Spec == Init /\ [][Next]_vars

\* A completed invocation is followed by a second one.
Rerun ==
    /\ main_pc = "done"
    /\ Restart

NextRerun ==
    \/ Orchestrate
    \/ Skim
    \/ Ingest
    \/ Rerun

SpecRerun == Init /\ [][NextRerun]_vars

\* An invocation that may find the lock file of a killed invocation.
InitMerge ==
    /\ run = 1
    /\ history = << >>
    /\ min_date \in MinDates
    /\ day_files = [i \in 1..NFiles |-> i]
    /\ faults = 0
    /\ error_sink = NoErrors
    /\ progress_thread = "alive"
    /\ ThreadsGiven
    /\ to_put = 0
    /\ lock_file \in {0, Stale}
    /\ DiskAtStart
    /\ FreshMemory

\* An invocation over a directory whose one file is ingested already,
\* during which a producer feeds the batch writer.
InitWriter ==
    /\ run = 1
    /\ history = << >>
    /\ min_date = 0
    /\ day_files = << 1 >>
    /\ faults = 0
    /\ error_sink = NoErrors
    /\ progress_thread = "alive"
    /\ ThreadsGiven
    /\ to_put = MaxBatches
    /\ lock_file \in {0, Stale}
    /\ state_file = [exists |-> TRUE, form |-> "state",
                     processed_files |-> {calculate_file_hash(1)},
                     prior |-> 0]
    /\ storage_file_exists = TRUE
    /\ storage = [c \in {StockCode(1)} |-> FullGroup(parse_fund_data_mmap(1, 0))]
    /\ FreshMemory

NextWriter ==
    \/ Orchestrate
    \/ Skim
    \/ BatchWriting

SpecWriter == InitWriter /\ [][NextWriter]_vars

InitAny ==
    \/ InitMerge
    \/ InitWriter

NextMerge ==
    \/ Orchestrate
    \/ Skim
    \/ Ingest
    \/ BatchWriting

\* Every merge of both functions: the workers' over a directory to ingest,
\* the batch writer's and the orchestrator's over a fed queue.
SpecMerge == InitAny /\ [][NextMerge]_vars

\* A first invocation, without earlier state or store, over a directory
\* that also holds the twin of file 1.
InitTwin ==
    /\ run = 1
    /\ history = << >>
    /\ min_date \in MinDates
    /\ day_files = [i \in 1..Twin |-> i]
    /\ faults = 0
    /\ error_sink = NoErrors
    /\ progress_thread = "alive"
    /\ ThreadsGiven
    /\ to_put = 0
    /\ lock_file = 0
    /\ state_file = NoState
    /\ storage_file_exists = FALSE
    /\ storage = EmptyStore
    /\ FreshMemory

InitJob ==
    \/ Init
    \/ InitTwin

\* A statement of a worker's own code raises.
Raise == \E w \in Workers : ProcessRaise(w)

NextJob ==
    \/ Orchestrate
    \/ Skim
    \/ Ingest
    \/ Raise

NextRaise ==
    \/ Orchestrate
    \/ Skim
    \/ Ingest
    \/ Raise

\* Lines 681-688: KeyboardInterrupt is raised in the main thread while it
\* waits for results; except Exception does not catch it and the with block
\* is left.
Interrupt ==
    /\ main_pc = "wait"
    /\ main_pc' = "interrupted"
    /\ UNCHANGED << jobVars, pc, workVars, lockVars, lock_file, storage,
                    stateVars, progress_queue, faults, queueVars, writeVars >>

\* Lines 896-900: once the executor's exit has waited for every task, the
\* KeyboardInterrupt leaves process_all_day_files_optimized and main, is
\* caught in __main__, and the process exits; lines 690-736 are not run.
InterruptExit ==
    /\ main_pc = "interrupted"
    /\ tasks = << >>
    /\ \A w \in Workers : pc[w] = "idle"
    /\ main_pc' = "exited"
    /\ UNCHANGED << jobVars, pc, workVars, lockVars, lock_file, storage,
                    stateVars, progress_queue, faults, queueVars, writeVars >>

NextInterrupt ==
    \/ Orchestrate
    \/ Skim
    \/ Ingest
    \/ Interrupt
    \/ InterruptExit

\* One invocation that the user may interrupt while the pool is working.
SpecInterrupt == Init /\ [][NextInterrupt]_vars

\* The forms of a state file that is not a pickled state dict.
DamagedForms == {"unreadable", "empty", "other"}

\* A first invocation that finds the store of an earlier job and no state
\* file, or a state file that does not hold a state dict.
InitLoad ==
    /\ run = 1
    /\ history = << >>
    /\ min_date \in MinDates
    /\ day_files = [i \in 1..NFiles |-> i]
    /\ faults = 0
    /\ error_sink = NoErrors
    /\ progress_thread = "alive"
    /\ ThreadsGiven
    /\ to_put = 0
    /\ lock_file = 0
    /\ \/ state_file = NoState
       \/ \E d \in DamagedForms :
             state_file = [exists |-> TRUE, form |-> d, processed_files |-> {},
                           prior |-> 0]
    /\ storage_file_exists = TRUE
    /\ storage = [c \in {StockCode(1)} |-> FullGroup(OldRecords)]
    /\ FreshMemory

NextLoad ==
    \/ Orchestrate
    \/ Skim
    \/ Ingest

\* One invocation over a missing or damaged state file.
SpecLoad == InitLoad /\ [][NextLoad]_vars

NextSave ==
    \/ Orchestrate
    \/ Skim
    \/ Ingest
    \/ KillInSave
    \/ Restart

\* The job, killed during a save of its state or run to its end, and
\* started once more.
SpecSave == Init /\ [][NextSave]_vars

NextReporter ==
    \/ Orchestrate
    \/ Skim
    \/ Ingest
    \/ ReporterFail

\* One invocation in which the reporter thread may fail.
SpecReporter == Init /\ [][NextReporter]_vars

\* The state an earlier job saved after it had ingested file 1.
SavedState ==
    [exists |-> TRUE, form |-> "state",
     processed_files |-> {calculate_file_hash(1)}, prior |-> 0]

\* An invocation started with --auto over every combination of a saved
\* state and a store file being there or not.
InitAuto ==
    /\ run = 1
    /\ history = << >>
    /\ min_date \in MinDates
    /\ day_files = [i \in 1..NFiles |-> i]
    /\ faults = 0
    /\ error_sink = NoErrors
    /\ progress_thread = "alive"
    /\ ThreadsGiven
    /\ to_put = 0
    /\ lock_file = 0
    /\ state_file \in {NoState, SavedState}
    /\ \/ /\ storage_file_exists = FALSE
          /\ storage = EmptyStore
       \/ /\ storage_file_exists = TRUE
          /\ storage = [c \in {StockCode(1)} |-> FullGroup(OldRecords)]
    /\ FreshMemory

NextAuto ==
    \/ Orchestrate
    \/ Skim
    \/ Ingest
    \/ AnswerPrompt

\* One invocation of the automatic mode.
SpecAuto == InitAuto /\ [][NextAuto]_vars

\* A call of calculate_optimal_threads on any host with any cap, before
\* the job of lines 604-736 starts.
InitThreads ==
    /\ run = 1
    /\ history = << >>
    /\ min_date = 0
    /\ day_files = [i \in 1..NFiles |-> i]
    /\ faults = 0
    /\ error_sink = NoErrors
    /\ progress_thread = "alive"
    /\ system_info \in Hosts
    /\ max_threads \in ThreadCaps
    /\ optimal_threads = NotComputed
    /\ to_put = 0
    /\ lock_file = 0
    /\ state_file = NoState
    /\ storage_file_exists = FALSE
    /\ storage = EmptyStore
    /\ FreshMemory

\* Lines 599-601: num_threads = calculate_optimal_threads(system_info)
CalculateThreads ==
    /\ main_pc = "load"
    /\ optimal_threads = NotComputed
    /\ optimal_threads' = calculate_optimal_threads(system_info, max_threads,
                                                    default_threads)
    /\ UNCHANGED << run, history, min_date, day_files, error_sink,
                    progress_thread, storage_file_exists, system_info,
                    max_threads, main_pc, pc, workVars, lockVars, lock_file,
                    storage, stateVars, progress_queue, faults, queueVars,
                    writeVars >>

NextThreads == CalculateThreads

SpecThreads == InitThreads /\ [][NextThreads]_vars

\* One invocation in which the workers' own statements may raise.
SpecRaise == Init /\ [][NextRaise]_vars

\* One invocation that is not killed, over any of the directories and disk
\* contents above.
SpecJob == InitJob /\ [][NextJob]_vars

\* ------------------------------------------------------------ properties
\* The store is open for writing in thread t: between the h5py.File(..., 'a')
\* of a merge and its close (lines 378-387, 451-483 and 489-496).
InWrite(t) == pc[t] \in {"copy", "del", "group", "data", "attr", "fdel", "fwrite"}

\* Thread t is inside a merge function (lines 353-397 and 426-510).
InMerge(t) == pc[t] = "lock" \/ InWrite(t) \/ pc[t] = "release"

\* The series an ingestion can hand to a merge for code c: the records of
\* the instrument's file, or of one producer batch.
Ingestible(c) ==
    {parse_fund_data_mmap(f, min_date) : f \in {g \in Files : StockCode(g) = c}}
        \cup {ProducerBatch(k).data : k \in {j \in 1..MaxBatches : ProducerBatch(j).code = c}}
        \cup {OldRecords}

\* C1: at every point the store holds for each instrument no series, the
\* complete old series or the complete new one: every stored group has its
\* eight columns and its record_count, and no step makes a stored
\* instrument disappear.
C1_AtomicVisibility ==
    /\ [](\A c \in DOMAIN storage : Complete(storage[c]))
    /\ [][DOMAIN storage \subseteq DOMAIN storage']_vars

\* C2: when a merge that deleted a stored series ends, by a raise of the
\* write or by the kill of the process, the instrument still has a complete
\* series in the store.
C2_InterruptedMergeKeepsSeries ==
    [][\A w \in Workers :
          (pc[w] = "copy" /\ deleted[w] /\ pc'[w] # "copy")
              => /\ StockCode(file[w]) \in DOMAIN storage'
                 /\ Complete(storage'[StockCode(file[w])])]_vars

\* C3 as stated: whoever has the store open for writing holds the lock
\* file, and no two merges have it open at once.
C3_EveryWriteUnderLock ==
    \A t \in Threads : \A u \in Threads :
        InWrite(t) => /\ lock_file = t
                      /\ (InWrite(u) => u = t)

\* C3: a merge that acquired the lock file holds it for as long as it has
\* the store open, so no two such merges write at once; a merge has the
\* store open without the lock only after max_retries failed attempts.
C3_LockedWritesExclusive ==
    \A t \in Threads : \A u \in Threads :
        InWrite(t) =>
            /\ lock_acquired[t] => lock_file = t
            /\ ~lock_acquired[t] => retry_count[t] = max_retries
            /\ (lock_acquired[t] /\ InWrite(u) /\ lock_acquired[u]) => u = t

\* Two merges have the store open, one with the lock and one without.
C3_Witness ==
    \E t \in Threads : \E u \in Threads :
        /\ InWrite(t) /\ lock_acquired[t] /\ lock_file = t
        /\ InWrite(u) /\ ~lock_acquired[u] /\ retry_count[u] = max_retries

C6_WorkersNeverOpenStore == \A w \in Workers : ~InWrite(w)

MergeStepEnabled(t) ==
    ENABLED (TryLock(t) \/ OpenAndDelete(t) \/ BatchOpen(t))

\* C8: a merge makes at most max_retries attempts to create the lock file,
\* each failure is followed by a longer sleep than the one before, and a
\* merge in its acquisition loop can always take a step: after the last
\* failure it opens the store, whatever the lock file.
C8_AcquisitionBounded ==
    \A t \in Threads :
        /\ retry_count[t] + (IF lock_acquired[t] THEN 1 ELSE 0) <= max_retries
        /\ sleep_time[t] = Backoff(retry_count[t])
        /\ \A k \in 1..retry_count[t] : Backoff(k - 1) < Backoff(k)
        /\ pc[t] = "lock" => MergeStepEnabled(t)
        /\ (pc[t] = "lock" /\ retry_count[t] = max_retries) => ~ENABLED TryLock(t)

\* A merge has the store open after max_retries failures on the lock file
\* of a killed process, which is still there.
C8_Witness ==
    \E t \in Threads :
        /\ InWrite(t)
        /\ ~lock_acquired[t]
        /\ retry_count[t] = max_retries
        /\ sleep_time[t] = Backoff(max_retries)
        /\ lock_file = Stale

\* C9: the job started again after a kill never merges a file that a task
\* of the killed invocation had ingested and recorded before it returned.
C9_RestartSkipsIngested ==
    (run = 2 /\ history[1].how = "killed") =>
        \A w \in Workers :
            InMerge(w) => calculate_file_hash(file[w]) \notin history[1].recorded

\* C10 as stated: in a second invocation after a completed one every file
\* is skipped by its fingerprint and the store stays as it was.
C10_EveryFileSkippedByHash ==
    (run = 2 /\ history[1].how = "completed") =>
        /\ storage = history[1].store
        /\ \A w \in Workers :
              pc[w] = "check" => calculate_file_hash(file[w]) \in processed_files

\* C10: in a second invocation after a completed one the store stays as
\* the first left it and no merge is started: a file the first invocation
\* recorded is skipped by its fingerprint, any other file is one that
\* yields no records.
C10_SecondRunIngestsNothing ==
    (run = 2 /\ history[1].how = "completed") =>
        /\ storage = history[1].store
        /\ processed_files \subseteq history[1].recorded
        /\ \A w \in Workers :
              /\ ~InMerge(w)
              /\ pc[w] = "check" =>
                    \/ calculate_file_hash(file[w]) \in processed_files
                    \/ parse_fund_data_mmap(file[w], min_date) = << >>

\* The second invocation has returned over a store that holds series, and
\* the first had recorded files.
C10_Witness ==
    /\ run = 2
    /\ history[1].how = "completed"
    /\ main_pc = "done"
    /\ history[1].recorded # {}
    /\ storage # EmptyStore
    /\ processed_count > 0

\* File f yields records under the job's cutoff.
HasData(f) == parse_fund_data_mmap(f, min_date) # << >>

\* The files of the directory.
Listed == {day_files[i] : i \in DOMAIN day_files}

\* C11: when a job that started without state and met no I/O error has
\* returned, every listed file that yields records has its instrument's
\* series in the store and a file whose size is no multiple of RecordSize
\* has none.
C11_ValidFilesStored ==
    (main_pc = "done" /\ run = 1 /\ prior = 0 /\ faults = 0) =>
        \A f \in Listed :
            /\ HasData(f) =>
                  /\ StockCode(f) \in DOMAIN storage
                  /\ storage[StockCode(f)] = FullGroup(parse_fund_data_mmap(f, min_date))
            /\ FileSize(f) % RecordSize # 0 => StockCode(f) \notin DOMAIN storage

\* The dates of a series do not decrease.
DatesAscending(records) ==
    \A i \in 1..Len(records) : \A j \in i..Len(records) :
        records[i].date <= records[j].date

DatesUnique(records) ==
    \A i \in 1..Len(records) : \A j \in 1..Len(records) :
        records[i].date = records[j].date => i = j

\* C13: in every complete series of the store the dates are unique.
C13_StoredDatesUnique ==
    \A c \in DOMAIN storage :
        Complete(storage[c]) => DatesUnique(storage[c].records)

\* The series of file f is in the store.
Stored(f) ==
    /\ StockCode(f) \in DOMAIN storage
    /\ storage[StockCode(f)] = FullGroup(parse_fund_data_mmap(f, min_date))

\* The files with an entry in the errors directory.
Failed == {f \in 1..Twin : error_sink[f] > 0}

\* C14: every exception raised while a worker processed a file left one
\* entry in the errors directory for that file; the job is never stuck
\* before it has returned; and when it has returned every task was run,
\* the state was saved, and every file with records whose processing did
\* not fail is stored and recorded.
C14_ExceptionRecordedAndIsolated ==
    /\ Cardinality(Failed) = faults
    /\ \A f \in 1..Twin : error_sink[f] <= 1
    /\ main_pc # "done" => ENABLED NextRaise
    /\ main_pc = "done" =>
          /\ tasks = << >>
          /\ \A w \in Workers : pc[w] = "idle"
          /\ state_file = [exists |-> TRUE, form |-> "state", processed_files |-> processed_files,
                           prior |-> prior]
          /\ \A f \in Listed \ Failed :
                HasData(f) => /\ Stored(f)
                              /\ calculate_file_hash(f) \in processed_files

\* The events on the progress queue that name file f.
EventsFor(f) ==
    Cardinality({i \in DOMAIN progress_queue : progress_queue[i][1] = f})

\* C15: when the last task has returned, the progress queue has received
\* exactly one event for every file of the work list.
C15_OneEventPerFile ==
    [][(main_pc = "wait" /\ main_pc' = "pjoin") =>
          \A f \in Listed : EventsFor(f) = 1]_vars

\* Lines 279-296: worker w has inserted its entry into processed_files and
\* has not yet tested the length and copied the mapping for the save.
InStateSection(w) == pc[w] = "flush"

\* C16: no two workers are at the same time between the insertion of their
\* entry into the in-memory state and the copy taken for the save.
C16_StateAccessExclusive ==
    \A w \in Workers : \A v \in Workers :
        (InStateSection(w) /\ InStateSection(v)) => w = v

\* Line 170: the size of file f is not a whole number of records.
Corrupt(f) == FileSize(f) % RecordSize # 0

\* C20: when the job has returned, every file of the work list whose size
\* is not a multiple of the record size has exactly one entry in the errors
\* directory.
C20_CorruptFileRecorded ==
    main_pc = "done" =>
        \A f \in Listed : Corrupt(f) => error_sink[f] = 1

\* C19: when the process has exited after a user interrupt, no worker is
\* inside a file, nothing is left in the writer's queue or accumulator, and
\* the state file holds the in-memory state.
C19_InterruptPersists ==
    main_pc = "exited" =>
        /\ \A w \in Workers : pc[w] = "idle"
        /\ data_cache_queue = << >>
        /\ batch_data = << >>
        /\ state_file = [exists |-> TRUE, form |-> "state", processed_files |-> processed_files,
                         prior |-> prior]

\* C18: over a state file that is missing, unreadable or not a state dict,
\* the step that loads the state starts the job with an empty in-memory
\* state and one task for every file of the directory.
C18_DamagedStateTolerated ==
    [][main_pc = "load" =>
          /\ main_pc' = "wait"
          /\ processed_files' = {}
          /\ prior' = 0
          /\ tasks' = day_files]_vars

\* The state file holds a pickled state dict.
Persisted(sf) == sf.exists /\ sf.form = "state"

\* C17: every entry of the state persisted when the first invocation ended
\* is in every state the second invocation has persisted.
C17_PersistedEntriesKept ==
    (run = 2 /\ Persisted(history[1].saved) /\ Persisted(state_file)) =>
        /\ history[1].saved.processed_files \subseteq state_file.processed_files
        /\ history[1].saved.prior <= state_file.prior

\* Lines 211-213: file f is a whole number of records and the cutoff drops
\* every one of them.
AllFiltered(f) == ~Corrupt(f) /\ parse_fund_data_mmap(f, min_date) = << >>

\* C21: when the job has returned and no task has raised, the count of
\* processed files of the summary is the number of files of the work list
\* that are a whole number of records, those whose records were all dropped
\* by the cutoff included.
C21_FilteredFileProcessed ==
    (main_pc = "done" /\ Failed = {}) =>
        processed_count = Cardinality({i \in DOMAIN day_files : ~Corrupt(day_files[i])})

\* Lines 486-497: merge t leaves the fallback write.
FallbackDone(t) == pc[t] = "fwrite" /\ pc'[t] = "release"

C23_JoinNeverStuck ==
    main_pc = "pjoin" => ENABLED (ReporterGet \/ StopWriter)

\* C24: an invocation of the automatic mode is never waiting for the
\* operator's input.
C24_AutoNeverPrompts == main_pc # "prompt"

\* min(a, b, c)
Min3(a, b, c) == Min(a, Min(b, c))

\* C25: the result of calculate_optimal_threads is
\* max(1, min(cpu_count, floor(memory_total / 512 MiB), max_threads)), and
\* with the default cap it lies between 1 and 8.
C25_OptimalThreads ==
    optimal_threads # NotComputed =>
        /\ optimal_threads =
               Max(1, Min3(system_info.cpu_count,
                           system_info.memory_total \div PerThreadMemory,
                           max_threads))
        /\ max_threads = DefaultMaxThreads => optimal_threads \in 1..8

\* A host with several CPUs and less than 512 MiB of memory got one thread.
C25_Witness ==
    /\ optimal_threads = 1
    /\ system_info.cpu_count > 1
    /\ max_threads = DefaultMaxThreads
    /\ system_info.memory_total < PerThreadMemory

\* The writer thread is inside batch_write_to_hdf5_optimized.
WriterMerging(p) == p \notin {"get", "done", "none"}

PersistedLen ==
    IF Persisted(state_file)
    THEN StateLen(state_file.processed_files, state_file.prior)
    ELSE 0

\* The pool is working and no worker is inside a file.
Quiet == main_pc = "wait" /\ \A w \in Workers : pc[w] = "idle"

\* C27: whenever no worker is inside a file, the state on disk holds at
\* least the entries the in-memory state had when it last reached a
\* multiple of SaveEvery.
C27_FlushEverySaveEvery ==
    Quiet => PersistedLen >= SaveEvery * (StateLen(processed_files, prior) \div SaveEvery)

\* Line 279: worker w inserts the fingerprint of its file.
Records(w) == pc[w] = "record" /\ pc'[w] = "flush"

\* C28: when a worker records the fingerprint of a file, the store holds
\* the complete series of the file's instrument with the records parsed
\* from that file.
C28_RecordedMeansStored ==
    [][\A w \in Workers : Records(w) => Stored(file[w])]_vars

\* Thread t is in the section of a merge that its lock file protects: from
\* the creation of the lock file to the finally that removes it.
Holds(t) == lock_acquired[t] /\ InMerge(t)

\* C29: a lock file is only ever removed by the merge that created it, in
\* its finally, and the lock file of a merge that created one is there, with
\* that merge as its creator, for the whole of the merge's section; a merge
\* that went on without the lock leaves the lock file as it is.
C29_OnlyCreatorRemoves ==
    [][/\ (lock_file # 0 /\ lock_file' # lock_file) =>
             /\ lock_file' = 0
             /\ lock_file \in Threads
             /\ Holds(lock_file)
             /\ pc[lock_file] = "release"
             /\ pc'[lock_file] # "release"
       /\ \A t \in Threads : Holds(t)' => lock_file' = t]_vars

\* A worker's merge that went on without the lock has returned while the
\* merge that holds the lock still has the store open under its lock file.
C29_Witness ==
    \E t \in Workers : \E u \in Threads :
        /\ u # t
        /\ pc[t] = "record"
        /\ ~lock_acquired[t]
        /\ Holds(u)
        /\ InWrite(u)
        /\ lock_file = u

\* Line 406: worker w puts the event of its file, with success = True.
Reports(w) ==
    /\ Len(progress_queue') = Len(progress_queue) + 1
    /\ progress_queue'[Len(progress_queue')] = << file[w], TRUE >>

\* C30: when a worker puts the success event of a file, the store holds the
\* series of that file.
C30_SuccessMeansStored ==
    [][\A w \in Workers : Reports(w) => Stored(file[w])]_vars

====
